---- MODULE Spec2Model ----
(***************************************************************************)
(* The headless melee arena of src/src/arena.rs (FastArena) as a state     *)
(* machine.  One match: two Fighter records, tick/done/winner, the arena   *)
(* bounds and max_ticks.  The operations are FastArena::new, reset, step   *)
(* and step_n.                                                             *)
(*                                                                         *)
(* Numbers.  The source computes in f64.  Here every f64 quantity is an    *)
(* exact decimal fixed-point integer:                                      *)
(*   positions, velocities   1 unit = 0.001 block          (Milli)         *)
(*   health, damage          1 unit = 0.05 health point    (HealthUnit)    *)
(*   food                    1 unit = 0.1 food point       (FoodUnit)      *)
(*   rewards                 1 unit = 0.00001              (RewardUnit)    *)
(*   yaw, pitch              whole degrees                                 *)
(* Sums and differences are exact.  The three places that leave the grid   *)
(* are rounded toward zero: the drag product v * 0.98, the 1/sqrt(2)       *)
(* normalisation of a diagonal move, and sqrt in the proximity reward.     *)
(* Binary rounding error of f64 is not modelled.  Yaw deltas are multiples *)
(* of 90 degrees, so sin and cos are exactly -1, 0 or 1.                   *)
(***************************************************************************)
EXTENDS Integers, Sequences, FiniteSets, TLC

VARIABLES
    arena,   \* the FastArena the driver holds
    arenas,  \* the ArenaVec the driver holds: its arenas, by index from 0
    ret,     \* the triple the latest step or step_n returned
    answer,  \* the value the latest query returned
    last,    \* the latest call: the operation, its arguments, the state before it
    calls,   \* calls made so far
    bot      \* the PyBot the driver holds

vars == <<arena, arenas, ret, answer, last, calls, bot>>

----------------------------------------------------------------------------
(* Units of the fixed-point grid *)
Milli == 10 * 100
HealthUnit == 4 * 5
FoodUnit == 2 * 5
RewardUnit == 1000 * 100

(* combat constants, arena.rs:8-18 *)
ATTACK_RANGE == 3 * Milli
ATTACK_COOLDOWN_TICKS == 10
SPRINT_CRIT_MULTIPLIER_PCT == 150
BASE_DAMAGE_IRON_SWORD == 6 * HealthUnit
DIAMOND_ARMOR_REDUCTION_PCT == 80
MAX_HEALTH == 20 * HealthUnit
MAX_FOOD == 20 * FoodUnit
FOOD_HEAL_THRESHOLD == 18 * FoodUnit
FOOD_HEAL_AMOUNT == 1 * HealthUnit
FOOD_PER_STEAK == 8 * FoodUnit
EAT_TICKS == 32

(* movement constants, arena.rs:21-27, in Milli; DRAG in percent *)
WALK_SPEED == 100
SPRINT_SPEED == 130
JUMP_VELOCITY == 420
GRAVITY == 80
DRAG_PCT == 98
KNOCKBACK_HORIZONTAL == 400
KNOCKBACK_VERTICAL == 360

(* literals of the code *)
SPRINT_FOOD_MIN == 6 * FoodUnit
JUMP_COOLDOWN_TICKS == 10
CONE_HALF_ANGLE == 60
INITIAL_STEAKS == 64
PROXIMITY_RADIUS == 10 * Milli

----------------------------------------------------------------------------
(* helpers for the f64 library calls *)
Abs(n) == IF n < 0 THEN -n ELSE n

Min(a, b) == IF a < b THEN a ELSE b

Max(a, b) == IF a > b THEN a ELSE b

Clamp(v, lo, hi) == IF v < lo THEN lo ELSE IF v > hi THEN hi ELSE v

\* u32::saturating_sub(1)
SaturatingDec(n) == IF n > 0 THEN n - 1 ELSE 0

\* a product with a decimal factor num/den, rounded toward zero
MulDiv(v, num, den) == IF v >= 0 THEN (v * num) \div den ELSE -(((-v) * num) \div den)

\* sin and cos of a yaw that is a multiple of 90 degrees
SinDeg(yaw) ==
    LET r == yaw % 360
    IN  IF r = 90 THEN 1 ELSE IF r = 270 THEN -1 ELSE 0

CosDeg(yaw) ==
    LET r == yaw % 360
    IN  IF r = 0 THEN 1 ELSE IF r = 180 THEN -1 ELSE 0

\* f64::sqrt rounded down: the root of n, known to lie in lo <= root < hi
RECURSIVE SqrtBetween(_, _, _)
SqrtBetween(n, lo, hi) ==
    IF hi - lo <= 1 THEN lo
    ELSE LET mid == (lo + hi) \div 2
         IN  IF mid * mid <= n THEN SqrtBetween(n, mid, hi)
             ELSE SqrtBetween(n, lo, mid)

----------------------------------------------------------------------------
(* Fighter and FighterAction *)
DefaultFighter ==
    [x |-> 0, y |-> 0, z |-> 0, vx |-> 0, vy |-> 0, vz |-> 0,
     yaw |-> 0, pitch |-> 0,
     health |-> MAX_HEALTH, food |-> MAX_FOOD, steaks |-> INITIAL_STEAKS,
     attack_cooldown |-> 0, eating_ticks |-> 0, jump_cooldown |-> 0,
     on_ground |-> TRUE, sprinting |-> FALSE, eating |-> FALSE,
     damage_dealt |-> 0, damage_taken |-> 0, hits_landed |-> 0, hits_taken |-> 0]

DefaultAction ==
    [forward |-> FALSE, backward |-> FALSE, left |-> FALSE, right |-> FALSE,
     jump |-> FALSE, sprint |-> FALSE, attack |-> FALSE, eat |-> FALSE,
     delta_yaw |-> 0, delta_pitch |-> 0]

\* Fighter::cooldown_progress, in percent (100 = ready)
CooldownProgress(f) ==
    IF f.attack_cooldown = 0 THEN 100
    ELSE 100 - (f.attack_cooldown * 100) \div ATTACK_COOLDOWN_TICKS

----------------------------------------------------------------------------
(* FastArena::apply_movement, arena.rs:188-268 *)

\* arena.rs:192-194: the two normalisation loops
RECURSIVE WrapYaw(_)
WrapYaw(yaw) ==
    IF yaw > 180 THEN WrapYaw(yaw - 360)
    ELSE IF yaw < -180 THEN WrapYaw(yaw + 360)
    ELSE yaw

\* arena.rs:200-218: the sum of the directional intents, before normalisation
MoveX(action, yaw) ==
      (IF action.forward THEN -SinDeg(yaw) ELSE 0)
    + (IF action.backward THEN SinDeg(yaw) ELSE 0)
    + (IF action.left THEN CosDeg(yaw) ELSE 0)
    + (IF action.right THEN -CosDeg(yaw) ELSE 0)

MoveZ(action, yaw) ==
      (IF action.forward THEN CosDeg(yaw) ELSE 0)
    + (IF action.backward THEN -CosDeg(yaw) ELSE 0)
    + (IF action.left THEN SinDeg(yaw) ELSE 0)
    + (IF action.right THEN -SinDeg(yaw) ELSE 0)

\* arena.rs:220-233: one component m of the move vector (mx, mz), normalised
\* when the vector is non-zero and scaled by speed.  With yaw a multiple of
\* 90 the vector has length 0, 1 or sqrt(2).
Accel(m, mx, mz, speed) ==
    LET len2 == mx * mx + mz * mz
    IN  IF len2 = 0 THEN 0
        ELSE IF len2 = 1 THEN m * speed
        ELSE m * MulDiv(speed, 7071, 10000)

\* CanMove letting an eating fighter accelerate and jump
CanMoveAlways(fighter) == TRUE

\* arena.rs:231 and 238: acceleration and the jump both require !fighter.eating
CanMove(fighter) == ~fighter.eating

ApplyMovement(ar, fighter, action) ==
    LET yaw == WrapYaw(fighter.yaw + action.delta_yaw)
        pitch == Clamp(fighter.pitch + action.delta_pitch, -90, 90)
        mx == MoveX(action, yaw)
        mz == MoveZ(action, yaw)
        sprinting == action.sprint /\ action.forward /\ fighter.food > SPRINT_FOOD_MIN
        speed == IF sprinting THEN SPRINT_SPEED ELSE WALK_SPEED
        vx1 == IF CanMove(fighter) THEN fighter.vx + Accel(mx, mx, mz, speed) ELSE fighter.vx
        vz1 == IF CanMove(fighter) THEN fighter.vz + Accel(mz, mx, mz, speed) ELSE fighter.vz
        jumps == action.jump /\ fighter.on_ground /\ CanMove(fighter)
                 /\ fighter.jump_cooldown = 0
        vy1 == IF jumps THEN JUMP_VELOCITY ELSE fighter.vy
        on_ground1 == IF jumps THEN FALSE ELSE fighter.on_ground
        jump_cooldown1 == IF jumps THEN JUMP_COOLDOWN_TICKS ELSE fighter.jump_cooldown
        vy2 == IF ~on_ground1 THEN vy1 - GRAVITY ELSE vy1
        vx2 == MulDiv(vx1, DRAG_PCT, 100)
        vz2 == MulDiv(vz1, DRAG_PCT, 100)
        x1 == fighter.x + vx2
        y1 == fighter.y + vy2
        z1 == fighter.z + vz2
        lands == y1 <= ar.floor_y
    IN  [fighter EXCEPT
            !.yaw = yaw,
            !.pitch = pitch,
            !.sprinting = sprinting,
            !.vx = vx2,
            !.vz = vz2,
            !.vy = IF lands THEN 0 ELSE vy2,
            !.jump_cooldown = jump_cooldown1,
            !.on_ground = IF lands THEN TRUE ELSE on_ground1,
            !.x = Clamp(x1, ar.min_x, ar.max_x),
            !.y = IF lands THEN ar.floor_y ELSE y1,
            !.z = Clamp(z1, ar.min_z, ar.max_z)]

----------------------------------------------------------------------------
(* FastArena::try_attack, arena.rs:270-336 *)

\* OutOfRange measuring the distance without its x component
OutOfRangeNoX(attacker, defender) ==
    LET dy == defender.y - attacker.y
        dz == defender.z - attacker.z
    IN  dy * dy + dz * dz > ATTACK_RANGE * ATTACK_RANGE

\* arena.rs:283-290: dist > ATTACK_RANGE, compared on the squares
OutOfRange(attacker, defender) ==
    LET dx == defender.x - attacker.x
        dy == defender.y - attacker.y
        dz == defender.z - attacker.z
    IN  dx * dx + dy * dy + dz * dz > ATTACK_RANGE * ATTACK_RANGE

\* arena.rs:293-299: yaw_diff > 60.  to_target_yaw = atan2(-dx, dz) is the yaw
\* whose facing vector (-sin, cos) points along (dx, dz), so the folded
\* difference is the angle between the attacker's facing vector and (dx, dz):
\* it exceeds 60 degrees exactly when the cosine is below 1/2.  For
\* dx = dz = 0, atan2(-0.0, 0.0) = -0.0 and the difference is |yaw| folded.
OutOfCone(attacker, defender) ==
    LET dx == defender.x - attacker.x
        dz == defender.z - attacker.z
        dot == -SinDeg(attacker.yaw) * dx + CosDeg(attacker.yaw) * dz
        fold == IF Abs(attacker.yaw) > 180 THEN 360 - Abs(attacker.yaw)
                ELSE Abs(attacker.yaw)
    IN  IF dx = 0 /\ dz = 0 THEN fold > CONE_HALF_ANGLE
        ELSE dot < 0 \/ 4 * dot * dot < dx * dx + dz * dz

\* arena.rs:277-299: the attempt lands
Hits(attacker, defender) ==
    /\ ~(attacker.attack_cooldown > 0 \/ attacker.eating)
    /\ ~OutOfRange(attacker, defender)
    /\ ~OutOfCone(attacker, defender)

\* Damage without the armor reduction
DamageNoArmor(attacker) ==
    IF attacker.sprinting /\ ~attacker.on_ground
    THEN MulDiv(BASE_DAMAGE_IRON_SWORD, SPRINT_CRIT_MULTIPLIER_PCT, 100)
    ELSE BASE_DAMAGE_IRON_SWORD

\* arena.rs:301-310
Damage(attacker) ==
    LET base == BASE_DAMAGE_IRON_SWORD
        crit == IF attacker.sprinting /\ ~attacker.on_ground
                THEN MulDiv(base, SPRINT_CRIT_MULTIPLIER_PCT, 100) ELSE base
    IN  MulDiv(crit, 100 - DIAMOND_ARMOR_REDUCTION_PCT, 100)

\* arena.rs:317-319, 333: the attacker after a hit
AttackerAfterHit(attacker, damage) ==
    [attacker EXCEPT
        !.damage_dealt = @ + damage,
        !.hits_landed = @ + 1,
        !.attack_cooldown = ATTACK_COOLDOWN_TICKS,
        !.sprinting = FALSE]

\* DefenderAfterHit leaving the defender's meal running
DefenderAfterHitKeepsEating(attacker, defender, damage) ==
    [defender EXCEPT
        !.health = @ - damage,
        !.damage_taken = @ + damage,
        !.hits_taken = @ + 1,
        !.vx = @ + (-SinDeg(attacker.yaw)) * KNOCKBACK_HORIZONTAL,
        !.vz = @ + CosDeg(attacker.yaw) * KNOCKBACK_HORIZONTAL,
        !.vy = @ + KNOCKBACK_VERTICAL,
        !.on_ground = FALSE]

\* arena.rs:312-315, 321-330: the defender after a hit
DefenderAfterHit(attacker, defender, damage) ==
    [defender EXCEPT
        !.health = @ - damage,
        !.damage_taken = @ + damage,
        !.hits_taken = @ + 1,
        !.vx = @ + (-SinDeg(attacker.yaw)) * KNOCKBACK_HORIZONTAL,
        !.vz = @ + CosDeg(attacker.yaw) * KNOCKBACK_HORIZONTAL,
        !.vy = @ + KNOCKBACK_VERTICAL,
        !.on_ground = FALSE,
        !.eating = FALSE,
        !.eating_ticks = 0]

\* MissResult with the attacker's sprint flag cleared by the swing
MissResultStopsSprint(ar, attacker_idx) ==
    [arena |-> IF attacker_idx = 0 THEN [ar EXCEPT !.fighter1.sprinting = FALSE]
               ELSE [ar EXCEPT !.fighter2.sprinting = FALSE],
     hit |-> FALSE]

\* arena.rs:279, 289, 298: the early returns of a miss
MissResult(ar, attacker_idx) == [arena |-> ar, hit |-> FALSE]

\* the whole call: the arena after it and the returned bool
TryAttack(ar, attacker_idx) ==
    LET attacker == IF attacker_idx = 0 THEN ar.fighter1 ELSE ar.fighter2
        defender == IF attacker_idx = 0 THEN ar.fighter2 ELSE ar.fighter1
        damage == Damage(attacker)
        a2 == AttackerAfterHit(attacker, damage)
        d2 == DefenderAfterHit(attacker, defender, damage)
    IN  IF ~Hits(attacker, defender) THEN MissResult(ar, attacker_idx)
        ELSE IF attacker_idx = 0
        THEN [arena |-> [ar EXCEPT !.fighter1 = a2, !.fighter2 = d2], hit |-> TRUE]
        ELSE [arena |-> [ar EXCEPT !.fighter2 = a2, !.fighter1 = d2], hit |-> TRUE]

----------------------------------------------------------------------------
(* FastArena::process_eating, arena.rs:338-360 *)
\* Regen running at any food level
RegenAnyFood(fighter) ==
    IF fighter.health < MAX_HEALTH
    THEN [fighter EXCEPT
            !.health = Min(@ + MulDiv(FOOD_HEAL_AMOUNT, 5, 100), MAX_HEALTH),
            !.food = @ - FoodUnit \div 10]
    ELSE fighter

\* natural regeneration when food is high, arena.rs:355-359
Regen(fighter) ==
    IF fighter.food >= FOOD_HEAL_THRESHOLD /\ fighter.health < MAX_HEALTH
    THEN [fighter EXCEPT
            !.health = Min(@ + MulDiv(FOOD_HEAL_AMOUNT, 5, 100), MAX_HEALTH),
            !.food = @ - FoodUnit \div 10]
    ELSE fighter

\* StartEating beginning a meal even when food is at its maximum
StartEatingWhenFull(fighter, wants_eat) ==
    IF wants_eat /\ ~fighter.eating /\ fighter.steaks > 0
    THEN [fighter EXCEPT !.eating = TRUE, !.eating_ticks = EAT_TICKS]
    ELSE fighter

\* the start of a meal, arena.rs:339-342
StartEating(fighter, wants_eat) ==
    IF wants_eat /\ ~fighter.eating /\ fighter.steaks > 0 /\ fighter.food < MAX_FOOD
    THEN [fighter EXCEPT !.eating = TRUE, !.eating_ticks = EAT_TICKS]
    ELSE fighter

ProcessEating(fighter, wants_eat) ==
    LET f1 == StartEating(fighter, wants_eat)
        ticks == SaturatingDec(f1.eating_ticks)
        f2 == IF ~f1.eating THEN f1
              ELSE IF ticks = 0
              THEN [f1 EXCEPT !.eating_ticks = 0,
                              !.eating = FALSE,
                              !.steaks = @ - 1,
                              !.food = Min(@ + FOOD_PER_STEAK, MAX_FOOD)]
              ELSE [f1 EXCEPT !.eating_ticks = ticks]
    IN  Regen(f2)

----------------------------------------------------------------------------
(* FastArena::new and FastArena::reset, arena.rs:365-402 *)

\* arena_size in whole blocks; half = arena_size / 2.0
New(arena_size, max_ticks) ==
    LET half == (arena_size * Milli) \div 2
    IN  [fighter1 |-> DefaultFighter, fighter2 |-> DefaultFighter,
         tick |-> 0, done |-> FALSE, winner |-> 0,
         min_x |-> -half, max_x |-> half, min_z |-> -half, max_z |-> half,
         floor_y |-> 0, max_ticks |-> max_ticks]

\* ResetArena leaving the previous episode's winner in place
ResetKeepsWinner(ar, spawn_distance) ==
    [ar EXCEPT
        !.fighter1 = [DefaultFighter EXCEPT
                        !.x = -((spawn_distance * Milli) \div 2), !.z = 0, !.yaw = -90],
        !.fighter2 = [DefaultFighter EXCEPT
                        !.x = (spawn_distance * Milli) \div 2, !.z = 0, !.yaw = 90],
        !.tick = 0,
        !.done = FALSE]

\* spawn_distance in whole blocks
ResetArena(ar, spawn_distance) ==
    [ar EXCEPT
        !.fighter1 = [DefaultFighter EXCEPT
                        !.x = -((spawn_distance * Milli) \div 2), !.z = 0, !.yaw = -90],
        !.fighter2 = [DefaultFighter EXCEPT
                        !.x = (spawn_distance * Milli) \div 2, !.z = 0, !.yaw = 90],
        !.tick = 0,
        !.done = FALSE,
        !.winner = 0]

----------------------------------------------------------------------------
(* FastArena::step, arena.rs:406-552 *)

\* A reward is kept as the terms the code adds up, each in RewardUnit.
ZeroReward ==
    [damage |-> 0, hit |-> 0, whiff |-> 0, jump |-> 0, heal |-> 0, eat |-> 0,
     finished |-> 0, interrupted |-> 0, closeness |-> 0, time |-> 0,
     outcome |-> 0, speed |-> 0]

RewardTotal(r) ==
    r.damage + r.hit + r.whiff + r.jump + r.heal + r.eat + r.finished
    + r.interrupted + r.closeness + r.time + r.outcome + r.speed

\* RewardUnit per unit of health
PerHealth == RewardUnit \div HealthUnit

\* Cooldowns leaving the attack cooldown as it is
CooldownsJumpOnly(fighter) == [fighter EXCEPT !.jump_cooldown = SaturatingDec(@)]

\* Cooldowns leaving the jump cooldown as it is
CooldownsAttackOnly(fighter) == [fighter EXCEPT !.attack_cooldown = SaturatingDec(@)]

\* arena.rs:420-424
Cooldowns(fighter) ==
    [fighter EXCEPT
        !.attack_cooldown = SaturatingDec(@),
        !.jump_cooldown = SaturatingDec(@)]

\* arena.rs:499-509
Closeness(f1, f2) ==
    LET dx == f2.x - f1.x
        dz == f2.z - f1.z
        d2 == dx * dx + dz * dz
    IN  IF d2 < PROXIMITY_RADIUS * PROXIMITY_RADIUS
        THEN ((PROXIMITY_RADIUS - SqrtBetween(d2, 0, PROXIMITY_RADIUS)) * RewardUnit)
             \div (100 * Milli)
        ELSE 0

\* SpeedBonus growing with the ticks elapsed instead of decaying
SpeedBonusElapsed(tick, max_ticks) == (5 * RewardUnit * tick) \div max_ticks

\* arena.rs:522, 530: 5.0 * (1.0 - tick / max_ticks), rounded down
SpeedBonus(tick, max_ticks) == (5 * RewardUnit * (max_ticks - tick)) \div max_ticks

\* arena.rs:458-513: the shaping terms of one side
Shaping(me, health_before, enemy_dealt, my_dealt, hit, whiff, action, was_eating, finished_eating, interrupted_eating, closeness) ==
    [ZeroReward EXCEPT
        !.damage = MulDiv(my_dealt * PerHealth, 5, 10) - MulDiv(enemy_dealt * PerHealth, 3, 10),
        !.hit = IF hit THEN RewardUnit \div 5 ELSE 0,
        !.whiff = IF whiff THEN -(RewardUnit \div 20) ELSE 0,
        !.jump = IF action.jump /\ me.jump_cooldown > 0 THEN -((3 * RewardUnit) \div 100) ELSE 0,
        !.heal = MulDiv(Max(me.health - health_before, 0) * PerHealth, 3, 10),
        !.eat = IF me.eating /\ was_eating THEN (2 * RewardUnit) \div 100 ELSE 0,
        !.finished = IF finished_eating THEN RewardUnit \div 2 ELSE 0,
        !.interrupted = IF interrupted_eating THEN -((3 * RewardUnit) \div 10) ELSE 0,
        !.closeness = closeness,
        !.time = -(RewardUnit \div 1000)]

\* BudgetSpent one tick late
BudgetSpentLate(tick, max_ticks) == tick > max_ticks

\* arena.rs:532: the tick budget is spent
BudgetSpent(tick, max_ticks) == tick >= max_ticks

\* TimeoutOutcome with an exact tie going to fighter 2 instead of a draw
TimeoutOutcomeNoDraw(f1, f2) ==
    IF f1.health > f2.health
    THEN [done |-> TRUE, winner |-> 1, o1 |-> 2 * RewardUnit, o2 |-> -2 * RewardUnit,
          s1 |-> 0, s2 |-> 0]
    ELSE [done |-> TRUE, winner |-> 2, o1 |-> -2 * RewardUnit, o2 |-> 2 * RewardUnit,
          s1 |-> 0, s2 |-> 0]

\* arena.rs:533-548: the outcome at the tick budget, by health
TimeoutOutcome(f1, f2) ==
    IF f1.health > f2.health
    THEN [done |-> TRUE, winner |-> 1, o1 |-> 2 * RewardUnit, o2 |-> -2 * RewardUnit,
          s1 |-> 0, s2 |-> 0]
    ELSE IF f2.health > f1.health
    THEN [done |-> TRUE, winner |-> 2, o1 |-> -2 * RewardUnit, o2 |-> 2 * RewardUnit,
          s1 |-> 0, s2 |-> 0]
    ELSE [done |-> TRUE, winner |-> -1, o1 |-> -3 * RewardUnit, o2 |-> -3 * RewardUnit,
          s1 |-> 0, s2 |-> 0]

\* arena.rs:515-549: done, winner and the outcome terms
Outcome(f1, f2, tick, max_ticks) ==
    IF f1.health <= 0
    THEN [done |-> TRUE, winner |-> 2, o1 |-> -10 * RewardUnit, o2 |-> 10 * RewardUnit,
          s1 |-> 0, s2 |-> SpeedBonus(tick, max_ticks)]
    ELSE IF f2.health <= 0
    THEN [done |-> TRUE, winner |-> 1, o1 |-> 10 * RewardUnit, o2 |-> -10 * RewardUnit,
          s1 |-> SpeedBonus(tick, max_ticks), s2 |-> 0]
    ELSE IF BudgetSpent(tick, max_ticks) THEN TimeoutOutcome(f1, f2)
    ELSE [done |-> FALSE, winner |-> 0, o1 |-> 0, o2 |-> 0, s1 |-> 0, s2 |-> 0]

\* arena.rs:407-409: the call on a terminal match.  Besides the arena after
\* the call and the returned triple, a step's result carries the call's locals
\* hit1 and hit2 and the arena as it stood after the movement phase (moved),
\* after fighter 1's attempt (after1) and after both attempts (mid), for the
\* properties that speak of them.
TerminalStep(ar) ==
    [arena |-> ar, reward1 |-> ZeroReward, reward2 |-> ZeroReward, done |-> TRUE,
     hit1 |-> FALSE, hit2 |-> FALSE, moved |-> ar, after1 |-> ar, mid |-> ar]

\* arena.rs:420-432: cooldowns, then the movement of both fighters
Moved(ar, action1, action2) ==
    [ar EXCEPT
        !.fighter1 = ApplyMovement(ar, Cooldowns(ar.fighter1), action1),
        !.fighter2 = ApplyMovement(ar, Cooldowns(ar.fighter2), action2)]

\* arena.rs:434-435, 438-439: if action.attack { try_attack(idx) } else { false }
Attempt(ar, tried, attacker_idx) ==
    IF tried THEN TryAttack(ar, attacker_idx) ELSE [arena |-> ar, hit |-> FALSE]

\* arena.rs:438-440: fighter 2's attempt, on the arena fighter 1's attempt left
SecondAttempt(moved, att1, action2) ==
    [moved |-> moved, after1 |-> att1.arena, hit1 |-> att1.hit,
     att2 |-> Attempt(att1.arena, action2.attack, 1)]

\* Attacks with fighter 2's attempt resolved first and fighter 1's on what it left
AttacksSecondFirst(moved, action1, action2) ==
    LET early == Attempt(moved, action2.attack, 1)
        late == Attempt(early.arena, action1.attack, 0)
    IN  [moved |-> moved, after1 |-> late.arena, hit1 |-> late.hit,
         att2 |-> [arena |-> late.arena, hit |-> early.hit]]

\* arena.rs:434-440: the attack phase, fighter 1 first
Attacks(moved, action1, action2) ==
    SecondAttempt(moved, Attempt(moved, action1.attack, 0), action2)

\* arena.rs:450-551: the tick, the rewards and the win conditions, from the
\* arena at the call (ar), the attack phase (att) and the fighters after
\* process_eating (f1, f2)
Settle(ar, action1, action2, att, f1, f2) ==
    LET health1_before == ar.fighter1.health
        health2_before == ar.fighter2.health
        was_eating1 == ar.fighter1.eating
        was_eating2 == ar.fighter2.eating
        eating_ticks1_before == ar.fighter1.eating_ticks
        eating_ticks2_before == ar.fighter2.eating_ticks
        hit1 == att.hit1
        hit2 == att.att2.hit
        whiff1 == action1.attack /\ ~hit1
        whiff2 == action2.attack /\ ~hit2
        finished_eating1 == was_eating1 /\ ~f1.eating /\ eating_ticks1_before = 1
        finished_eating2 == was_eating2 /\ ~f2.eating /\ eating_ticks2_before = 1
        interrupted_eating1 == was_eating1 /\ ~f1.eating /\ eating_ticks1_before > 1
        interrupted_eating2 == was_eating2 /\ ~f2.eating /\ eating_ticks2_before > 1
        tick == ar.tick + 1
        damage1_dealt == health2_before - f2.health
        damage2_dealt == health1_before - f1.health
        closeness == Closeness(f1, f2)
        shaping1 == Shaping(f1, health1_before, damage2_dealt, damage1_dealt, hit1, whiff1,
                            action1, was_eating1, finished_eating1, interrupted_eating1,
                            closeness)
        shaping2 == Shaping(f2, health2_before, damage1_dealt, damage2_dealt, hit2, whiff2,
                            action2, was_eating2, finished_eating2, interrupted_eating2,
                            closeness)
    IN  CHOOSE s \in
            { [arena |-> [ar EXCEPT !.fighter1 = f1, !.fighter2 = f2, !.tick = tick,
                                   !.done = out.done,
                                   !.winner = IF out.done THEN out.winner ELSE @],
               reward1 |-> [shaping1 EXCEPT !.outcome = out.o1, !.speed = out.s1],
               reward2 |-> [shaping2 EXCEPT !.outcome = out.o2, !.speed = out.s2],
               done |-> out.done,
               hit1 |-> hit1, hit2 |-> hit2, moved |-> att.moved, after1 |-> att.after1,
               mid |-> att.att2.arena] : out \in {Outcome(f1, f2, tick, ar.max_ticks)} } : TRUE

\* arena.rs:442-448: process_eating for both fighters, after the attack phase
Eaten(ar, action1, action2, att) ==
    Settle(ar, action1, action2, att,
           ProcessEating(att.att2.arena.fighter1, action1.eat),
           ProcessEating(att.att2.arena.fighter2, action2.eat))

\* arena.rs:411-551: the call on a live match
LiveStep(ar, action1, action2) ==
    Eaten(ar, action1, action2, Attacks(Moved(ar, action1, action2), action1, action2))

\* StepFn without the early return on a terminal match
StepFnAlways(ar, action1, action2) == LiveStep(ar, action1, action2)

\* The whole call
StepFn(ar, action1, action2) ==
    IF ar.done THEN TerminalStep(ar) ELSE LiveStep(ar, action1, action2)

----------------------------------------------------------------------------
(* FastArena::get_obs, arena.rs:554-609.  A component is kept in ObsUnit
   (1 unit = 0.000001), each quotient rounded toward zero, and an angle in
   whole degrees. *)
ObsUnit == 1000 * 1000

\* 10000 * sin of 0, 1, ... 90 degrees
SinTable ==
    << 0, 175, 349, 523, 698, 872, 1045, 1219, 1392, 1564, 1736, 1908, 2079,
       2250, 2419, 2588, 2756, 2924, 3090, 3256, 3420, 3584, 3746, 3907, 4067, 4226,
       4384, 4540, 4695, 4848, 5000, 5150, 5299, 5446, 5592, 5736, 5878, 6018, 6157,
       6293, 6428, 6561, 6691, 6820, 6947, 7071, 7193, 7314, 7431, 7547, 7660, 7771,
       7880, 7986, 8090, 8192, 8290, 8387, 8480, 8572, 8660, 8746, 8829, 8910, 8988,
       9063, 9135, 9205, 9272, 9336, 9397, 9455, 9511, 9563, 9613, 9659, 9703, 9744,
       9781, 9816, 9848, 9877, 9903, 9925, 9945, 9962, 9976, 9986, 9994, 9998, 10000 >>

Sin10k(k) == SinTable[k + 1]

Cos10k(k) == SinTable[91 - k]

\* the angle in 0..90 of the direction (ax, ay), ax >= 0 and ay >= 0: the
\* largest whole k with tan(k) <= ay / ax
AcuteDeg(ay, ax) ==
    CHOOSE k \in 0..90 :
        /\ ax * Sin10k(k) <= ay * Cos10k(k)
        /\ k < 90 => ax * Sin10k(k + 1) > ay * Cos10k(k + 1)

\* f64::atan2(y, x).to_degrees() for a positive-zero x, in whole degrees
Atan2Deg(y, x) ==
    IF x = 0 /\ y = 0 THEN 0
    ELSE IF x >= 0 THEN (IF y >= 0 THEN AcuteDeg(y, x) ELSE -AcuteDeg(-y, x))
    ELSE IF y >= 0 THEN 180 - AcuteDeg(y, -x)
    ELSE AcuteDeg(-y, -x) - 180

\* EnemyToMeYaw taking the bearing from the size of dx, without its sign
EnemyToMeYawUnsigned(dx, dz) ==
    IF dx = 0 /\ dz = 0 THEN 180 ELSE Atan2Deg(Abs(dx), -dz)

\* arena.rs:570: (-(-dx)).atan2(-dz).to_degrees().  With dz = 0.0 the second
\* argument is -0.0, which atan2 treats as the negative x axis: dx = 0.0 then
\* gives 180 where a positive zero would give 0.
EnemyToMeYaw(dx, dz) ==
    IF dx = 0 /\ dz = 0 THEN 180 ELSE Atan2Deg(dx, -dz)

Flag(b) == IF b THEN ObsUnit ELSE 0

\* arena.rs:563-609
GetObs(me, enemy) ==
    LET dx == enemy.x - me.x
        dy == enemy.y - me.y
        dz == enemy.z - me.z
        dist == SqrtBetween(dx * dx + dy * dy + dz * dz, 0, 46341)
    IN  << \* my state (13)
           MulDiv(me.x * 1000, 1, 32),
           MulDiv(me.y * 1000, 1, 32),
           MulDiv(me.z * 1000, 1, 32),
           me.vx * 1000,
           me.vy * 1000,
           me.vz * 1000,
           MulDiv(me.health * ObsUnit, 1, MAX_HEALTH),
           MulDiv(me.food * ObsUnit, 1, MAX_FOOD),
           CooldownProgress(me) * (ObsUnit \div 100),
           MulDiv(me.yaw * ObsUnit, 1, 180),
           MulDiv(me.pitch * ObsUnit, 1, 90),
           Flag(me.on_ground),
           Flag(me.sprinting),
           \* enemy state (10)
           MulDiv(dx * 1000, 1, 32),
           MulDiv(dy * 1000, 1, 16),
           MulDiv(dz * 1000, 1, 32),
           Min(MulDiv(dist * 1000, 1, 32), ObsUnit),
           MulDiv(enemy.health * ObsUnit, 1, MAX_HEALTH),
           MulDiv(EnemyToMeYaw(dx, dz) * ObsUnit, 1, 180),
           enemy.vx * 1000,
           enemy.vy * 1000,
           enemy.vz * 1000,
           ObsUnit,
           \* combat state (4)
           MulDiv(me.damage_dealt * ObsUnit, 1, 40 * HealthUnit),
           MulDiv(me.damage_taken * ObsUnit, 1, 40 * HealthUnit),
           MulDiv(me.hits_landed * ObsUnit, 1, 20),
           MulDiv(me.hits_taken * ObsUnit, 1, 20),
           \* eating state (4)
           Flag(me.eating),
           MulDiv(me.eating_ticks * ObsUnit, 1, EAT_TICKS),
           Flag(enemy.eating),
           MulDiv(me.steaks * ObsUnit, 1, INITIAL_STEAKS) >>

\* arena.rs:554-556
GetObs1Fn(ar) == GetObs(ar.fighter1, ar.fighter2)

\* arena.rs:558-560
GetObs2Fn(ar) == GetObs(ar.fighter2, ar.fighter1)

----------------------------------------------------------------------------
(* FastArena::step_n, arena.rs:622-634 *)
\* AddReward keeping the latest step's reward instead of the sum
KeepLatestReward(a, b) == b

\* arena.rs:628-629: total += r, term by term
AddReward(a, b) == [k \in DOMAIN ZeroReward |-> a[k] + b[k]]

\* The for loop over 0..n.  run is the loop's state: the arena, the totals and
\* whether the loop has hit its break.  The iterations are composed by halves
\* (the first i \div 2, then the rest), which is the same sequence of bodies.
\* Each intermediate value is bound through a one-element set, so that it is
\* computed once however often it is read.
LoopBody(run, action1, action2) ==
    CHOOSE next \in { [arena |-> s.arena,
                       reward1 |-> AddReward(run.reward1, s.reward1),
                       reward2 |-> AddReward(run.reward2, s.reward2),
                       broke |-> s.done] : s \in {StepFn(run.arena, action1, action2)} } : TRUE

RECURSIVE StepLoop(_, _, _, _)
StepLoop(run, i, action1, action2) ==
    CHOOSE end \in { IF i = 0 \/ r.broke THEN r
                     ELSE IF i = 1 THEN LoopBody(r, action1, action2)
                     ELSE StepLoop(StepLoop(r, i \div 2, action1, action2), i - i \div 2,
                                   action1, action2) : r \in {run} } : TRUE

StepNFn(ar, n, action1, action2) ==
    CHOOSE result \in { [arena |-> run.arena, reward1 |-> run.reward1,
                         reward2 |-> run.reward2, done |-> run.arena.done] :
                        run \in {StepLoop([arena |-> ar, reward1 |-> ZeroReward,
                                           reward2 |-> ZeroReward, broke |-> FALSE],
                                          n, action1, action2)} } : TRUE

----------------------------------------------------------------------------
(* ArenaVec, arena.rs:637-713.  The vector arenas is a function on
   0 .. len - 1. *)

\* arena.rs:645-650
VecNew(count, arena_size, max_ticks) ==
    [i \in 0..(count - 1) |-> New(arena_size, max_ticks)]

\* arena.rs:652-654
VecLen(av) == Cardinality(DOMAIN av)

\* arena.rs:657-661
VecResetAllFn(av, spawn_distance) ==
    [i \in DOMAIN av |-> ResetArena(av[i], spawn_distance)]

\* VecResetFn resetting every arena, whatever the index
VecResetEvery(av, idx, spawn_distance) == VecResetAllFn(av, spawn_distance)

\* arena.rs:664-668
VecResetFn(av, idx, spawn_distance) ==
    IF idx < VecLen(av) THEN [av EXCEPT ![idx] = ResetArena(@, spawn_distance)] ELSE av

\* the arenas after the call and the returned triple, from one arena's step
VecStepped(av, idx, s) ==
    [arenas |-> [av EXCEPT ![idx] = s.arena],
     reward1 |-> s.reward1, reward2 |-> s.reward2, done |-> s.done]

\* VecStepFn sending an index past the end to the last arena
VecStepClamped(av, idx, action1, action2) ==
    VecStepped(av, Min(idx, VecLen(av) - 1),
               StepFn(av[Min(idx, VecLen(av) - 1)], action1, action2))

\* arena.rs:671-677
VecStepFn(av, idx, action1, action2) ==
    IF idx < VecLen(av) THEN VecStepped(av, idx, StepFn(av[idx], action1, action2))
    ELSE [arenas |-> av, reward1 |-> ZeroReward, reward2 |-> ZeroReward, done |-> TRUE]

\* arena.rs:684, 692: vec![0.0; 27]
ZeroObs == [i \in 1..27 |-> 0]

\* arena.rs:680-686
VecGetObs1Fn(av, idx) == IF idx < VecLen(av) THEN GetObs1Fn(av[idx]) ELSE ZeroObs

\* arena.rs:688-694
VecGetObs2Fn(av, idx) == IF idx < VecLen(av) THEN GetObs2Fn(av[idx]) ELSE ZeroObs

\* arena.rs:697-703
VecIsDoneFn(av, idx) == IF idx < VecLen(av) THEN av[idx].done ELSE TRUE

\* arena.rs:706-712
VecGetWinnerFn(av, idx) == IF idx < VecLen(av) THEN av[idx].winner ELSE 0

----------------------------------------------------------------------------
(* PyBot, bot.rs:16-21, and PyGameState, state.rs:66-251.  inner is the
   Option<Client>: << >> for None and <<c>> for Some, c being what the held
   client reports.
   Values are whole numbers; a cooldown fraction is kept in twelfths
   (12 = 1.0 = ready). *)
NoClient == << >>

\* a PyBot whose connection has not delivered Event::Init: bot.rs:417-418.
\* Besides the two shared cells it records where the two threads stand:
\*   link     the connection thread's Init handler: "pending" before it runs,
\*            "stored" between its two statements, "done" after them;
\*   lock     the mutex of inner: "held" while disconnect() is between clearing
\*            the handle and returning, else "free";
\*   returned a call of disconnect() has returned.
NoBot ==
    [inner |-> NoClient, connected |-> FALSE, link |-> "pending", lock |-> "free",
     returned |-> FALSE]

\* state.rs:227-250
DefaultGameState ==
    [x |-> 0, y |-> 0, z |-> 0, yaw |-> 0, pitch |-> 0,
     velocity_x |-> 0, velocity_y |-> 0, velocity_z |-> 0,
     health |-> 20, food |-> 20, saturation |-> 5,
     is_on_ground |-> TRUE, is_sprinting |-> FALSE, is_sneaking |-> FALSE,
     is_dead |-> FALSE, attack_cooldown |-> 12, selected_slot |-> 0,
     entities |-> << >>, tick |-> 0]

\* bot.rs:49-80.  Outside a game the client's accessors panic, the panics are
\* caught and the defaults stay.
GetStateFn(b) ==
    IF b.inner # NoClient
    THEN IF b.inner[1].in_game
         THEN [DefaultGameState EXCEPT
                  !.x = b.inner[1].x, !.y = b.inner[1].y, !.z = b.inner[1].z,
                  !.health = b.inner[1].health, !.food = b.inner[1].food]
         ELSE DefaultGameState
    ELSE DefaultGameState

\* bot.rs:178-191: 1.0 - (remaining / 12.0).min(1.0) on cooldown, else 1.0
AttackCooldownFn(b) ==
    IF b.inner # NoClient
    THEN IF b.inner[1].remaining > 0 THEN 12 - Min(b.inner[1].remaining, 12) ELSE 12
    ELSE 12

\* bot.rs:341-345: disconnect() takes the lock, disconnects a held client and
\* clears the handle.  Nothing here stops the connection thread: a handler that
\* has not run yet, or stands between its two statements, goes on.
DisconnectClearFn(b) == [b EXCEPT !.inner = NoClient, !.lock = "held"]

\* bot.rs:346-348: connected.store(false), then the guard is dropped on return
DisconnectStoreFn(b) == [b EXCEPT !.connected = FALSE, !.lock = "free", !.returned = TRUE]

----------------------------------------------------------------------------
(* The driver: the actions it sends and the calls it makes *)
Idle == DefaultAction

Attack == [DefaultAction EXCEPT !.attack = TRUE]

Eat == [DefaultAction EXCEPT !.eat = TRUE]

\* a sprint-jump attack, the only way to a critical hit
Charge == [DefaultAction EXCEPT !.forward = TRUE, !.sprint = TRUE, !.jump = TRUE,
                                !.attack = TRUE]

\* turn a quarter left and look up, attacking
TurnAttack == [DefaultAction EXCEPT !.delta_yaw = 90, !.delta_pitch = 60, !.attack = TRUE]

\* back off diagonally while starting a meal
Retreat == [DefaultAction EXCEPT !.backward = TRUE, !.left = TRUE, !.eat = TRUE]

\* turn a quarter right and look down
TurnRight == [DefaultAction EXCEPT !.delta_yaw = -90, !.delta_pitch = -60]

\* run at the opponent on the ground, attacking
SprintAttack == [DefaultAction EXCEPT !.forward = TRUE, !.sprint = TRUE, !.attack = TRUE]

Actions == {Idle, Attack, Eat, Charge, TurnAttack, Retreat, TurnRight, SprintAttack}

SpawnDistances == {2, 10}

\* A match already under way: FastArena::new(arena_size, max_ticks) followed by
\* the calls of script, each <<"reset", d>> or <<"step_n", n, a1, a2>>.
Episodes ==
    { [arena_size |-> 32, max_ticks |-> 2400, script |-> << >>],
      [arena_size |-> 32, max_ticks |-> 2, script |-> << <<"reset", 2>> >>],
      [arena_size |-> 3, max_ticks |-> 172,
       script |-> << <<"reset", 2>>, <<"step_n", 170, Attack, Attack>> >>],
      [arena_size |-> 4, max_ticks |-> 2400,
       script |-> << <<"reset", 2>>, <<"step_n", 151, Attack, Idle>>,
                     <<"step_n", 32, Idle, Eat>>, <<"step_n", 10, Attack, Idle>> >>],
      [arena_size |-> 4, max_ticks |-> 2400,
       script |-> << <<"reset", 2>>, <<"step_n", 151, Attack, Idle>>,
                     <<"step_n", 31, Idle, Eat>> >>] }

RECURSIVE Replay(_, _)
Replay(ar, script) ==
    IF script = << >> THEN ar
    ELSE LET c == Head(script)
         IN  Replay(IF c[1] = "reset" THEN ResetArena(ar, c[2])
                    ELSE StepNFn(ar, c[2], c[3], c[4]).arena,
                    Tail(script))

\* calls the driver makes after the episode's script
MaxCalls == 2

NoReturn == [reward1 |-> ZeroReward, reward2 |-> ZeroReward, done |-> FALSE]

\* what the driver keeps of its latest call: the operation and its arguments,
\* the arena before the call, and a step's locals
Call(op, action1, action2, n, before, s) ==
    [op |-> op, action1 |-> action1, action2 |-> action2, n |-> n, before |-> before,
     hit1 |-> s.hit1, hit2 |-> s.hit2, moved |-> s.moved, after1 |-> s.after1,
     mid |-> s.mid]

\* no query has returned a value
NoAnswer == << >>

\* A driver of one match: it holds no batch.
Init ==
    \E e \in Episodes :
        /\ arena = Replay(New(e.arena_size, e.max_ticks), e.script)
        /\ arenas = VecNew(0, e.arena_size, e.max_ticks)
        /\ ret = NoReturn
        /\ answer = NoAnswer
        /\ last = Call("new", Idle, Idle, 0, arena, TerminalStep(arena))
        /\ calls = 0
        /\ bot = NoBot

Reset(spawn_distance) ==
    /\ calls < MaxCalls
    /\ arena' = ResetArena(arena, spawn_distance)
    /\ ret' = NoReturn
    /\ answer' = NoAnswer
    /\ last' = Call("reset", Idle, Idle, spawn_distance, arena, TerminalStep(arena'))
    /\ calls' = calls + 1
    /\ UNCHANGED bot
    /\ UNCHANGED arenas

Step(action1, action2) ==
    /\ calls < MaxCalls
    /\ \E s \in {StepFn(arena, action1, action2)} :
           /\ arena' = s.arena
           /\ ret' = [reward1 |-> s.reward1, reward2 |-> s.reward2, done |-> s.done]
           /\ last' = Call("step", action1, action2, 1, arena, s)
    /\ answer' = NoAnswer
    /\ calls' = calls + 1
    /\ UNCHANGED bot
    /\ UNCHANGED arenas

StepN(n, action1, action2) ==
    /\ calls < MaxCalls
    /\ \E s \in {StepNFn(arena, n, action1, action2)} :
           /\ arena' = s.arena
           /\ ret' = [reward1 |-> s.reward1, reward2 |-> s.reward2, done |-> s.done]
           /\ last' = Call("step_n", action1, action2, n, arena, TerminalStep(s.arena))
    /\ answer' = NoAnswer
    /\ calls' = calls + 1
    /\ UNCHANGED bot
    /\ UNCHANGED arenas

GetObs1 ==
    /\ calls < MaxCalls
    /\ answer' = GetObs1Fn(arena)
    /\ ret' = NoReturn
    /\ last' = Call("get_obs1", Idle, Idle, 0, arena, TerminalStep(arena))
    /\ calls' = calls + 1
    /\ UNCHANGED bot
    /\ UNCHANGED <<arena, arenas>>

GetObs2 ==
    /\ calls < MaxCalls
    /\ answer' = GetObs2Fn(arena)
    /\ ret' = NoReturn
    /\ last' = Call("get_obs2", Idle, Idle, 0, arena, TerminalStep(arena))
    /\ calls' = calls + 1
    /\ UNCHANGED bot
    /\ UNCHANGED <<arena, arenas>>

Next ==
    \/ \E d \in SpawnDistances : Reset(d)
    \/ \E a1 \in Actions, a2 \in Actions : Step(a1, a2)
    \/ \E n \in {0, 3}, a1 \in {Idle, Attack}, a2 \in {Idle, Eat} : StepN(n, a1, a2)
    \/ GetObs1
    \/ GetObs2

Spec == Init /\ [][Next]_vars

----------------------------------------------------------------------------
(* The driver of a batch *)

\* arenas in the batch
Count == 2

\* the indices the driver passes: every valid one and two past the end
Indices == 0..(Count + 1)

\* A batch as constructed, and a batch of one-tick matches after reset_all.
VecEpisodes ==
    { [arena_size |-> 32, max_ticks |-> 2400, reset_all |-> FALSE],
      [arena_size |-> 4, max_ticks |-> 1, reset_all |-> TRUE] }

VecActionPairs == { <<Attack, Idle>>, <<Charge, Eat>> }

\* what the driver keeps of its latest batch call
VecCall(op, idx, action1, action2, spawn_distance, before) ==
    [op |-> op, idx |-> idx, action1 |-> action1, action2 |-> action2,
     n |-> spawn_distance, before |-> before]

InitVec ==
    \E e \in VecEpisodes :
        /\ arena = New(e.arena_size, e.max_ticks)
        /\ arenas = IF e.reset_all
                    THEN VecResetAllFn(VecNew(Count, e.arena_size, e.max_ticks), 2)
                    ELSE VecNew(Count, e.arena_size, e.max_ticks)
        /\ ret = NoReturn
        /\ answer = NoAnswer
        /\ last = VecCall("new", 0, Idle, Idle, 0, arenas)
        /\ calls = 0
        /\ bot = NoBot

VecLenCall ==
    /\ calls < MaxCalls
    /\ answer' = VecLen(arenas)
    /\ ret' = NoReturn
    /\ last' = VecCall("len", 0, Idle, Idle, 0, arenas)
    /\ calls' = calls + 1
    /\ UNCHANGED bot
    /\ UNCHANGED <<arena, arenas>>

VecResetAll(spawn_distance) ==
    /\ calls < MaxCalls
    /\ arenas' = VecResetAllFn(arenas, spawn_distance)
    /\ ret' = NoReturn
    /\ answer' = NoAnswer
    /\ last' = VecCall("reset_all", 0, Idle, Idle, spawn_distance, arenas)
    /\ calls' = calls + 1
    /\ UNCHANGED bot
    /\ UNCHANGED arena

VecReset(idx, spawn_distance) ==
    /\ calls < MaxCalls
    /\ arenas' = VecResetFn(arenas, idx, spawn_distance)
    /\ ret' = NoReturn
    /\ answer' = NoAnswer
    /\ last' = VecCall("reset", idx, Idle, Idle, spawn_distance, arenas)
    /\ calls' = calls + 1
    /\ UNCHANGED bot
    /\ UNCHANGED arena

VecStep(idx, action1, action2) ==
    /\ calls < MaxCalls
    /\ \E s \in {VecStepFn(arenas, idx, action1, action2)} :
           /\ arenas' = s.arenas
           /\ ret' = [reward1 |-> s.reward1, reward2 |-> s.reward2, done |-> s.done]
    /\ answer' = NoAnswer
    /\ last' = VecCall("step", idx, action1, action2, 0, arenas)
    /\ calls' = calls + 1
    /\ UNCHANGED bot
    /\ UNCHANGED arena

VecGetObs1(idx) ==
    /\ calls < MaxCalls
    /\ answer' = VecGetObs1Fn(arenas, idx)
    /\ ret' = NoReturn
    /\ last' = VecCall("get_obs1", idx, Idle, Idle, 0, arenas)
    /\ calls' = calls + 1
    /\ UNCHANGED bot
    /\ UNCHANGED <<arena, arenas>>

VecGetObs2(idx) ==
    /\ calls < MaxCalls
    /\ answer' = VecGetObs2Fn(arenas, idx)
    /\ ret' = NoReturn
    /\ last' = VecCall("get_obs2", idx, Idle, Idle, 0, arenas)
    /\ calls' = calls + 1
    /\ UNCHANGED bot
    /\ UNCHANGED <<arena, arenas>>

VecIsDone(idx) ==
    /\ calls < MaxCalls
    /\ answer' = VecIsDoneFn(arenas, idx)
    /\ ret' = NoReturn
    /\ last' = VecCall("is_done", idx, Idle, Idle, 0, arenas)
    /\ calls' = calls + 1
    /\ UNCHANGED bot
    /\ UNCHANGED <<arena, arenas>>

VecGetWinner(idx) ==
    /\ calls < MaxCalls
    /\ answer' = VecGetWinnerFn(arenas, idx)
    /\ ret' = NoReturn
    /\ last' = VecCall("get_winner", idx, Idle, Idle, 0, arenas)
    /\ calls' = calls + 1
    /\ UNCHANGED bot
    /\ UNCHANGED <<arena, arenas>>

NextVec ==
    \/ VecLenCall
    \/ \E d \in SpawnDistances : VecResetAll(d)
    \/ \E idx \in Indices, d \in SpawnDistances : VecReset(idx, d)
    \/ \E idx \in Indices, p \in VecActionPairs : VecStep(idx, p[1], p[2])
    \/ \E idx \in Indices : VecGetObs1(idx)
    \/ \E idx \in Indices : VecGetObs2(idx)
    \/ \E idx \in Indices : VecIsDone(idx)
    \/ \E idx \in Indices : VecGetWinner(idx)

SpecVec == InitVec /\ [][NextVec]_vars

----------------------------------------------------------------------------
(* The driver of a live client *)

\* what a held client may report: position, health, food, the ticks its attack
\* cooldown has left, and whether it is in a game
Clients ==
    [x : {0, 5}, y : {0}, z : {0}, health : {20, 7}, food : {20, 3},
     remaining : {0, 6}, in_game : BOOLEAN]

BotCall(op, before) == [op |-> op, before |-> before]

\* PyBot::connect has returned without Event::Init, its wait of 100 x 50 ms
\* over: bot.rs:489-501
InitBot ==
    /\ bot = NoBot
    /\ arena = New(32, 2400)
    /\ arenas = VecNew(0, 32, 2400)
    /\ ret = NoReturn
    /\ answer = NoAnswer
    /\ last = BotCall("connect", NoBot)
    /\ calls = 0

\* bot.rs:447-449, the handler of Event::Init: *holder.lock() = Some(bot.clone());
\* the guard is a temporary, dropped at the end of the statement
OnInitStore ==
    /\ bot.link = "pending"
    /\ bot.lock = "free"
    /\ \E c \in Clients : bot' = [bot EXCEPT !.inner = <<c>>, !.link = "stored"]
    /\ UNCHANGED <<arena, arenas, ret, answer, last, calls>>

\* bot.rs:450-452: connected.store(true), outside the lock
OnInitConnected ==
    /\ bot.link = "stored"
    /\ bot' = [bot EXCEPT !.connected = TRUE, !.link = "done"]
    /\ UNCHANGED <<arena, arenas, ret, answer, last, calls>>

\* the server moves the held client on
ClientTick ==
    /\ bot.inner # NoClient
    /\ \E c \in Clients : bot' = [bot EXCEPT !.inner = <<c>>]
    /\ UNCHANGED <<arena, arenas, ret, answer, last, calls>>

\* the caller enters disconnect()
DisconnectClear ==
    /\ calls < MaxCalls
    /\ bot.lock = "free"
    /\ bot' = DisconnectClearFn(bot)
    /\ answer' = NoAnswer
    /\ last' = BotCall("disconnect", bot)
    /\ calls' = calls + 1
    /\ UNCHANGED <<arena, arenas, ret>>

\* disconnect() stores connected and returns
DisconnectStore ==
    /\ bot.lock = "held"
    /\ bot' = DisconnectStoreFn(bot)
    /\ UNCHANGED <<arena, arenas, ret, answer, last, calls>>

BotGetState ==
    /\ calls < MaxCalls
    /\ bot.lock = "free"
    /\ answer' = GetStateFn(bot)
    /\ last' = BotCall("get_state", bot)
    /\ calls' = calls + 1
    /\ UNCHANGED <<arena, arenas, ret, bot>>

BotAttackCooldown ==
    /\ calls < MaxCalls
    /\ bot.lock = "free"
    /\ answer' = AttackCooldownFn(bot)
    /\ last' = BotCall("attack_cooldown", bot)
    /\ calls' = calls + 1
    /\ UNCHANGED <<arena, arenas, ret, bot>>

NextBot ==
    \/ OnInitStore
    \/ OnInitConnected
    \/ ClientTick
    \/ DisconnectClear
    \/ DisconnectStore
    \/ BotGetState
    \/ BotAttackCooldown

SpecBot == InitBot /\ [][NextBot]_vars

----------------------------------------------------------------------------
(* Properties *)

\* the latest call was step on a live match
StepTaken == last.op = "step" /\ ~last.before.done

\* the latest call was step and it ended the match with a health at or below 0
KillStep == StepTaken /\ arena.done
            /\ (arena.fighter1.health <= 0 \/ arena.fighter2.health <= 0)

ZeroReturn == [reward1 |-> ZeroReward, reward2 |-> ZeroReward, done |-> TRUE]

InRange(f) == /\ 0 <= f.health /\ f.health <= MAX_HEALTH
              /\ 0 <= f.food /\ f.food <= MAX_FOOD

\* squared 3D distance between two fighters
DistSq(a, b) == (b.x - a.x) * (b.x - a.x) + (b.y - a.y) * (b.y - a.y)
                + (b.z - a.z) * (b.z - a.z)

(* C1: after every step, the one ending the match included, both fighters
   have 0 <= health <= 20 and 0 <= food <= 20. *)
C1_HealthFoodInRange ==
    last.op \in {"step", "step_n"} => InRange(arena.fighter1) /\ InRange(arena.fighter2)

(* C2: a step on a terminal match returns (0, 0, true) and leaves both
   fighters, tick, done and winner as they were; and only reset makes a
   terminal match live again. *)
C2_TerminalStepNoOp ==
    /\ (last.op \in {"step", "step_n"} /\ last.n > 0 /\ last.before.done)
           => (arena = last.before /\ ret = ZeroReturn)
    /\ (last.before.done /\ ~arena.done) => last.op = "reset"

\* a step with attack intents was made on a match a kill had ended
C2_Witness ==
    /\ last.op = "step" /\ last.before.done /\ last.before.winner = 1
    /\ last.action1.attack /\ last.action2.attack

(* C3: whenever a hit resolved during a step brings a fighter's health to
   zero or below, the match is terminal at the end of that same step, whatever
   regeneration runs later in the tick. *)
C3_LethalHitEndsMatch ==
    StepTaken =>
        /\ (last.hit1 /\ last.after1.fighter2.health <= 0) => arena.done
        /\ (last.hit2 /\ last.mid.fighter1.health <= 0) => arena.done

(* C4: whenever a step ends the match by a health outcome, the reported winner
   is the surviving fighter: winner = 1 implies health1 > 0 and health2 <= 0,
   winner = 2 implies health2 > 0 and health1 <= 0, also when both fighters
   land hits in that step. *)
C4_WinnerIsSurvivor ==
    KillStep =>
        /\ arena.winner = 1 => (arena.fighter1.health > 0 /\ arena.fighter2.health <= 0)
        /\ arena.winner = 2 => (arena.fighter2.health > 0 /\ arena.fighter1.health <= 0)

\* the outcome and speed terms of the winner (w) and the loser (l) of a kill
KillRewards(w, l) ==
    /\ w.outcome = 10 * RewardUnit
    /\ l.outcome = -10 * RewardUnit
    /\ l.speed = 0
    \* w.speed is 5 * (1 - tick / max_ticks) in RewardUnit, rounded down
    /\ w.speed * arena.max_ticks <= 5 * RewardUnit * (arena.max_ticks - arena.tick)
    /\ 5 * RewardUnit * (arena.max_ticks - arena.tick) < (w.speed + 1) * arena.max_ticks

(* C5 as claimed: on every step that ends the match by a kill, at any tick
   from 1 to max_ticks inclusive, the winner's reward includes +10 and a
   strictly positive speed bonus 5 * (1 - tick / max_ticks), and the loser's
   reward includes -10. *)
C5_KillRewardsSpeedPositive ==
    KillStep =>
        /\ arena.winner = 1 => (KillRewards(ret.reward1, ret.reward2) /\ ret.reward1.speed > 0)
        /\ arena.winner = 2 => (KillRewards(ret.reward2, ret.reward1) /\ ret.reward2.speed > 0)

(* C5 amended: on every step that ends the match by a kill the winner's reward
   includes +10 and the speed bonus 5 * (1 - tick / max_ticks), which is
   strictly positive for a kill before tick max_ticks and zero for a kill at
   tick max_ticks; the loser's reward includes -10 and no speed bonus. *)
C5_KillRewards ==
    KillStep =>
        /\ arena.winner \in {1, 2}
        /\ arena.winner = 1 =>
              /\ KillRewards(ret.reward1, ret.reward2)
              /\ (ret.reward1.speed > 0) <=> (arena.tick < arena.max_ticks)
        /\ arena.winner = 2 =>
              /\ KillRewards(ret.reward2, ret.reward1)
              /\ (ret.reward2.speed > 0) <=> (arena.tick < arena.max_ticks)

\* fighter 1 has killed fighter 2 before the tick budget was spent
C5_Witness ==
    /\ KillStep /\ arena.winner = 1 /\ arena.fighter2.health <= 0
    /\ arena.tick < arena.max_ticks /\ ret.reward1.speed > 0

(* C6: with max_ticks >= 1, a live match has tick < max_ticks, tick never
   exceeds max_ticks, and each step on a live match raises tick by exactly 1;
   so a terminal state is reached within max_ticks steps of reset. *)
C6_TickBudget ==
    arena.max_ticks >= 1 =>
        /\ ~arena.done => arena.tick < arena.max_ticks
        /\ arena.tick <= arena.max_ticks
        /\ StepTaken => arena.tick = last.before.tick + 1

\* a step has brought tick to max_ticks with both fighters alive, ending the match
C6_Witness ==
    /\ StepTaken /\ arena.done /\ arena.tick = arena.max_ticks
    /\ arena.fighter1.health > 0 /\ arena.fighter2.health > 0

(* C7: when a step brings tick to max_ticks and neither health is <= 0, equal
   healths give winner draw (-1) and -3 to both rewards; otherwise the fighter
   with strictly greater health is the winner, with +2 for it and -2 for the
   other; no other winner value is produced at the tick budget. *)
C7_TickBudgetOutcome ==
    (/\ StepTaken /\ arena.tick = arena.max_ticks
     /\ arena.fighter1.health > 0 /\ arena.fighter2.health > 0)
    => /\ arena.done
       /\ ret.done
       /\ ret.reward1.speed = 0 /\ ret.reward2.speed = 0
       /\ IF arena.fighter1.health = arena.fighter2.health
          THEN /\ arena.winner = -1
               /\ ret.reward1.outcome = -3 * RewardUnit
               /\ ret.reward2.outcome = -3 * RewardUnit
          ELSE IF arena.fighter1.health > arena.fighter2.health
          THEN /\ arena.winner = 1
               /\ ret.reward1.outcome = 2 * RewardUnit
               /\ ret.reward2.outcome = -2 * RewardUnit
          ELSE /\ arena.winner = 2
               /\ ret.reward1.outcome = -2 * RewardUnit
               /\ ret.reward2.outcome = 2 * RewardUnit

\* the tick budget ran out on equal healths after both fighters had been hit
C7_Witness ==
    /\ StepTaken /\ arena.tick = arena.max_ticks /\ arena.winner = -1
    /\ arena.fighter1.health = arena.fighter2.health
    /\ arena.fighter1.health < MAX_HEALTH /\ arena.fighter1.health > 0

\* C8 for one fighter: before and after are its records around the step
CooldownRule(before, after, hit) ==
    /\ hit => after.attack_cooldown = ATTACK_COOLDOWN_TICKS
    /\ ~hit => after.attack_cooldown = SaturatingDec(before.attack_cooldown)
    /\ hit => before.attack_cooldown <= 1

(* C8: at the end of a step in which a fighter lands a hit its attack cooldown
   is 10; on each following step it decreases by exactly 1 until 0; a hit is
   landed only from a cooldown of 0 or 1 before the step, so not in the 9
   steps after a hit and again on the 10th. *)
C8_AttackCooldown ==
    StepTaken =>
        /\ CooldownRule(last.before.fighter1, arena.fighter1, last.hit1)
        /\ CooldownRule(last.before.fighter2, arena.fighter2, last.hit2)

\* a fighter lands its next hit on the 10th step after a hit
C8_Witness ==
    /\ StepTaken /\ last.hit1
    /\ last.before.fighter1.attack_cooldown = 1
    /\ last.before.fighter1.hits_landed > 0

(* C9: when the fighters are 10 apart at attack resolution (any distance
   beyond the attack range 3), an attempt by either fighter misses and leaves
   the defender's health unchanged, whatever the attacker's cooldown, facing
   and eating state. *)
C9_OutOfRangeMisses ==
    StepTaken =>
        /\ (/\ last.action1.attack
            /\ DistSq(last.moved.fighter1, last.moved.fighter2) > ATTACK_RANGE * ATTACK_RANGE)
           => (~last.hit1 /\ last.after1.fighter2.health = last.moved.fighter2.health)
        /\ (/\ last.action2.attack
            /\ DistSq(last.after1.fighter2, last.after1.fighter1) > ATTACK_RANGE * ATTACK_RANGE)
           => (~last.hit2 /\ last.mid.fighter1.health = last.after1.fighter1.health)

\* both fighters attack, facing each other, at distance exactly 10
C9_Witness ==
    /\ StepTaken /\ last.action1.attack /\ last.action2.attack
    /\ DistSq(last.moved.fighter1, last.moved.fighter2) = (10 * Milli) * (10 * Milli)
    /\ ~OutOfCone(last.moved.fighter1, last.moved.fighter2)
    /\ ~last.hit1 /\ ~last.hit2

(* C10: an attack attempt that misses (cooldown, eating, out of range or
   outside the 60-degree cone) changes no field of either fighter. *)
C10_MissChangesNothing ==
    StepTaken =>
        /\ (last.action1.attack /\ ~last.hit1) => last.after1 = last.moved
        /\ (last.action2.attack /\ ~last.hit2) => last.mid = last.after1

\* a sprinting attacker in range and off cooldown misses outside the cone
C10_Witness ==
    /\ StepTaken /\ last.action1.attack /\ ~last.hit1
    /\ last.moved.fighter1.attack_cooldown = 0 /\ ~last.moved.fighter1.eating
    /\ ~OutOfRange(last.moved.fighter1, last.moved.fighter2)
    /\ OutOfCone(last.moved.fighter1, last.moved.fighter2)

\* C11 for one fighter: before and after are its records around the step
NoMealGain(before, after, hit) ==
    (before.eating /\ hit) => (after.food <= before.food /\ after.steaks = before.steaks)

(* C11: in a step in which a fighter that was eating is hit, that fighter
   gains no food from the meal and its steak count does not decrease. *)
C11_HitMealGivesNothing ==
    StepTaken =>
        /\ NoMealGain(last.before.fighter1, arena.fighter1, last.hit2)
        /\ NoMealGain(last.before.fighter2, arena.fighter2, last.hit1)

\* fighter 2 is hit on the last tick of its meal, below a full food bar
C11_Witness ==
    /\ StepTaken /\ last.hit1
    /\ last.before.fighter2.eating /\ last.before.fighter2.eating_ticks = 1
    /\ last.before.fighter2.food < MAX_FOOD /\ last.before.fighter2.steaks > 0

\* C12 for one fighter: before and after are its records around the step
IdleAfterInterrupt(before, after, hit) ==
    (before.eating /\ hit) => (~after.eating /\ after.eating_ticks = 0)

(* C12: in a step in which a fighter's eating is interrupted by a hit, that
   fighter is not eating and its eating countdown is 0 at the end of the step,
   whatever its own action in that step, an eat intent included. *)
C12_InterruptedIsIdle ==
    StepTaken =>
        /\ IdleAfterInterrupt(last.before.fighter1, arena.fighter1, last.hit2)
        /\ IdleAfterInterrupt(last.before.fighter2, arena.fighter2, last.hit1)

\* the latest batch call passed an index at or past the end
PastEnd == last.op \in {"reset", "step", "get_obs1", "get_obs2", "is_done", "get_winner"}
           /\ last.idx >= VecLen(last.before)

AllZero(v) == \A i \in DOMAIN v : v[i] = 0

(* C13: for a batch of N matches and an index i >= N, step(i) returns
   (0, 0, true), is_done(i) returns true, get_winner(i) returns 0, the
   observation calls return an all-zero vector, reset(i) does nothing, and
   none of these calls changes any of the N matches. *)
C13_PastEndDefaults ==
    PastEnd =>
        /\ arenas = last.before
        /\ last.op = "step" => ret = ZeroReturn
        /\ last.op = "is_done" => answer = TRUE
        /\ last.op = "get_winner" => answer = 0
        /\ last.op \in {"get_obs1", "get_obs2"} => (answer # << >> /\ AllZero(answer))

\* a step with an attack at index N, on a batch holding a match in progress
\* with the fighters in reach of each other
C13_Witness ==
    /\ last.op = "step" /\ last.idx = VecLen(last.before) /\ last.action1.attack
    /\ \E j \in DOMAIN arenas :
           /\ ~arenas[j].done
           /\ ~OutOfRange(arenas[j].fighter1, arenas[j].fighter2)
           /\ arenas[j].fighter1.yaw = -90

\* the latest batch call was step or reset at a valid index
ValidCall == last.op \in {"reset", "step"} /\ last.idx < VecLen(last.before)

\* match idx of the batch after the latest call, run on its own
Alone ==
    IF last.op = "reset" THEN ResetArena(last.before[last.idx], last.n)
    ELSE StepFn(last.before[last.idx], last.action1, last.action2).arena

(* C14: in a batch, step(i, ...) and reset(i, ...) at a valid index i change
   only match i: every match j # i is exactly as before, and match i is as the
   same call on that match alone leaves it. *)
C14_OnlyIndexedMatchChanges ==
    ValidCall =>
        /\ DOMAIN arenas = DOMAIN last.before
        /\ \A j \in DOMAIN arenas : j # last.idx => arenas[j] = last.before[j]
        /\ arenas[last.idx] = Alone

\* a reset of one match that changes it, beside a match it would have changed too
C14_Witness ==
    /\ ValidCall /\ last.op = "reset"
    /\ arenas[last.idx] # last.before[last.idx]
    /\ \E j \in DOMAIN arenas :
           j # last.idx /\ ResetArena(arenas[j], last.n) # arenas[j]

(* C15: the observation vector has one fixed length: the vector returned for
   either side of any match and the all-zero vector returned by the batch for
   an index past the end have the same number of elements. *)
C15_ObsLengthFixed ==
    last.op \in {"get_obs1", "get_obs2"} =>
        Len(answer) = Len(VecGetObs1Fn(last.before, 0))

\* step called k times in a row, stopping short at a terminal match: the
\* arena reached and the sums of the rewards returned
RECURSIVE StepsInARow(_, _, _, _)
StepsInARow(run, k, action1, action2) ==
    IF k = 0 \/ run.arena.done THEN run
    ELSE StepsInARow(
             CHOOSE next \in
                 { [arena |-> s.arena,
                    reward1 |-> [t \in DOMAIN ZeroReward |-> run.reward1[t] + s.reward1[t]],
                    reward2 |-> [t \in DOMAIN ZeroReward |-> run.reward2[t] + s.reward2[t]]] :
                   s \in {StepFn(run.arena, action1, action2)} } : TRUE,
             k - 1, action1, action2)

(* C16: step_n(n, a1, a2) leaves the match in the state reached by calling
   step(a1, a2) k times, k the smaller of n and the number of steps until the
   match is terminal; it returns the sums of those k steps' rewards and the
   terminal flag; on a terminal match or with n = 0 it returns zero rewards
   and changes nothing. *)
C16_StepNIsRepeatedStep ==
    last.op = "step_n" =>
        /\ \E run \in {StepsInARow([arena |-> last.before, reward1 |-> ZeroReward,
                                     reward2 |-> ZeroReward],
                                    last.n, last.action1, last.action2)} :
               /\ arena = run.arena
               /\ ret.reward1 = run.reward1
               /\ ret.reward2 = run.reward2
        /\ ret.done = arena.done
        /\ (last.before.done \/ last.n = 0) =>
               /\ arena = last.before
               /\ ret.reward1 = ZeroReward /\ ret.reward2 = ZeroReward

\* a step_n of 3 that the end of the match cut short after 2 steps
C16_Witness ==
    /\ last.op = "step_n" /\ last.n = 3 /\ ~last.before.done
    /\ arena.done /\ arena.tick = last.before.tick + 2
    /\ ret.reward1.time = -2 * (RewardUnit \div 1000)

\* a fighter as C17 describes it, at x (in blocks) with the given yaw
SpawnedFighter(x, yaw) ==
    [x |-> x * Milli, y |-> 0, z |-> 0, vx |-> 0, vy |-> 0, vz |-> 0,
     yaw |-> yaw, pitch |-> 0,
     health |-> 20 * HealthUnit, food |-> 20 * FoodUnit, steaks |-> 64,
     attack_cooldown |-> 0, eating_ticks |-> 0, jump_cooldown |-> 0,
     on_ground |-> TRUE, sprinting |-> FALSE, eating |-> FALSE,
     damage_dealt |-> 0, damage_taken |-> 0, hits_landed |-> 0, hits_taken |-> 0]

(* C17: reset(d) from any state, fresh, mid-episode or terminal, yields tick 0,
   a live match, winner none, fighter 1 at x = -d/2 with yaw -90 and fighter 2
   at x = +d/2 with yaw +90, z = 0, y = 0, both with full health and food, 64
   steaks, zero velocity, zero countdowns, grounded, not sprinting, not
   eating, and zero cumulative stats. *)
C17_ResetIsFresh ==
    last.op = "reset" =>
        /\ arena.tick = 0 /\ ~arena.done /\ arena.winner = 0
        /\ 2 * arena.fighter1.x = -(last.n * Milli)
        /\ 2 * arena.fighter2.x = last.n * Milli
        /\ [arena.fighter1 EXCEPT !.x = 0] = SpawnedFighter(0, -90)
        /\ [arena.fighter2 EXCEPT !.x = 0] = SpawnedFighter(0, 90)

\* a reset of a match that a kill had ended
C17_Witness ==
    /\ last.op = "reset" /\ last.before.done /\ last.before.winner = 1
    /\ last.before.fighter2.health <= 0 /\ last.before.fighter1.attack_cooldown > 0
    /\ last.before.tick > 0

\* the latest call was a step of a live match with attack-only intents
AttackOnlyStep == StepTaken /\ last.action1 = Attack /\ last.action2 = Attack

\* base damage 6 after armor: 1.2
PlainHit == (6 * HealthUnit) \div 5

(* C18 as claimed: with both fighters issuing only attack intents, every step
   in which a fighter is hit leaves that defender's health lower than at the
   start of the step by exactly the non-critical per-hit damage 1.2. *)
C18_HitLowersHealthByDamage ==
    AttackOnlyStep =>
        /\ last.hit1 => arena.fighter2.health = last.before.fighter2.health - PlainHit
        /\ last.hit2 => arena.fighter1.health = last.before.fighter1.health - PlainHit

\* C18 for one defender: its records before the step, before and after the
\* attack on it, and at the end of the step
HitThenRegen(before, pre, post, end) ==
    /\ pre.health = before.health
    /\ post.health = pre.health - PlainHit
    /\ end.health = post.health + (IF post.food >= FOOD_HEAL_THRESHOLD
                                   THEN HealthUnit \div 20 ELSE 0)

(* C18 amended: with both fighters issuing only attack intents, every hit
   lowers the defender's health at its resolution by exactly the non-critical
   per-hit damage 1.2; at the end of that step the health is lower than at the
   start by 1.2 when the defender's food is below 18, and by 1.15 when it is
   18 or more, the tick's regeneration of 0.05 having been added. *)
C18_HitLowersHealthThenRegen ==
    AttackOnlyStep =>
        /\ last.hit1 => HitThenRegen(last.before.fighter2, last.moved.fighter2,
                                     last.after1.fighter2, arena.fighter2)
        /\ last.hit2 => HitThenRegen(last.before.fighter1, last.after1.fighter1,
                                     last.mid.fighter1, arena.fighter1)

\* both fighters hit each other in the first step after a reset, and both
\* regenerate in that step
C18_Witness ==
    /\ AttackOnlyStep /\ last.hit1 /\ last.hit2 /\ last.before.tick = 0
    /\ arena.fighter1.health = MAX_HEALTH - PlainHit + HealthUnit \div 20
    /\ arena.fighter2.health = MAX_HEALTH - PlainHit + HealthUnit \div 20

\* the match stands as reset(d) leaves it, for a d > 0
JustReset == \E d \in SpawnDistances : d > 0 /\ arena = ResetArena(arena, d)

\* an observation with self x (1), own yaw (10), relative x-displacement (14)
\* and the opponent's bearing to self (19) negated
Mirrored(v) == [i \in DOMAIN v |-> IF i \in {1, 10, 14, 19} THEN -v[i] ELSE v[i]]

(* C19: immediately after reset(d), d > 0, the observation for fighter 2 is
   the observation for fighter 1 with self x, relative x-displacement, own yaw
   and the opponent's bearing to self negated, and every other component
   equal. *)
C19_ResetObsMirrored ==
    JustReset =>
        /\ last.op = "get_obs1" => GetObs2Fn(arena) = Mirrored(answer)
        /\ last.op = "get_obs2" => GetObs1Fn(arena) = Mirrored(answer)

\* fighter 2's observation after reset(10): fighter 1 bears -90 degrees
C19_Witness ==
    /\ JustReset /\ last.op = "get_obs2" /\ calls = 2
    /\ answer[1] = (5 * ObsUnit) \div 32
    /\ answer[14] = -((10 * ObsUnit) \div 32)
    /\ answer[10] = ObsUnit \div 2
    /\ answer[19] = -(ObsUnit \div 2)

\* the latest call queried a PyBot that held no client
QueriedNoClient == last.op \in {"get_state", "attack_cooldown"}
                   /\ last.before.inner = NoClient

\* the answers a PyBot holding a client can give to the latest query
GenuineAnswers ==
    { IF last.op = "get_state"
      THEN GetStateFn([NoBot EXCEPT !.inner = <<c>>, !.connected = TRUE, !.link = "done"])
      ELSE AttackCooldownFn([NoBot EXCEPT !.inner = <<c>>, !.connected = TRUE,
                                          !.link = "done"]) :
      c \in Clients }

(* C20: when the live-client wrapper holds no client, never connected or
   after disconnect, get_state and attack_cooldown return a result that is
   explicitly absent: one the caller can tell from a genuine snapshot of a
   connected bot. *)
C20_NoClientAnswerIsAbsent ==
    QueriedNoClient => answer \notin GenuineAnswers

(* C21: within one step the phases run in the order cooldown decrement,
   movement of both fighters, fighter 1's attempt, fighter 2's attempt,
   consumable/regen of both fighters, tick increment; fighter 2's attempt is
   evaluated on the state fighter 1's attempt left, never the reverse. *)
C21_PhaseOrder ==
    StepTaken =>
        /\ last.moved.fighter1
               = ApplyMovement(last.before, Cooldowns(last.before.fighter1), last.action1)
        /\ last.moved.fighter2
               = ApplyMovement(last.before, Cooldowns(last.before.fighter2), last.action2)
        /\ last.hit1 <=> (last.action1.attack
                           /\ Hits(last.moved.fighter1, last.moved.fighter2))
        /\ last.hit2 <=> (last.action2.attack
                           /\ Hits(last.after1.fighter2, last.after1.fighter1))
        /\ ~last.hit1 => last.after1 = last.moved
        /\ ~last.hit2 => last.mid = last.after1
        /\ arena.fighter1 = ProcessEating(last.mid.fighter1, last.action1.eat)
        /\ arena.fighter2 = ProcessEating(last.mid.fighter2, last.action2.eat)
        /\ arena.tick = last.before.tick + 1
        /\ arena.done = Outcome(arena.fighter1, arena.fighter2, arena.tick,
                                arena.max_ticks).done

\* fighter 2, eating when the step began, is hit by fighter 1 and then lands
\* its own hit: only this order of the attempts allows it
C21_Witness ==
    /\ StepTaken /\ last.hit1 /\ last.hit2
    /\ last.before.fighter2.eating /\ last.moved.fighter2.eating
    /\ ~last.after1.fighter2.eating

\* the jump penalty, -0.03
JumpPenalty == -((3 * RewardUnit) \div 100)

\* C22 for one fighter: its record before the step, its action and its reward
PenaltyIffRejected(before, action, reward) ==
    (reward.jump = JumpPenalty)
        <=> (action.jump /\ SaturatingDec(before.jump_cooldown) > 0)

(* C22: a fighter's step reward includes the jump penalty -0.03 exactly when
   it had jump intent in that step and the jump was rejected because its jump
   cooldown was non-zero; a step in which the jump is accepted carries no jump
   penalty. *)
C22_JumpPenaltyOnlyOnRejected ==
    StepTaken =>
        /\ PenaltyIffRejected(last.before.fighter1, last.action1, ret.reward1)
        /\ PenaltyIffRejected(last.before.fighter2, last.action2, ret.reward2)
        /\ \A r \in {ret.reward1, ret.reward2} : r.jump \in {0, JumpPenalty}

\* the consumption-completion bonus, +0.5, and the interruption penalty, -0.3
CompletionBonus == RewardUnit \div 2

InterruptionPenalty == -((3 * RewardUnit) \div 10)

\* C23 for one fighter: its records around the step and its reward
BonusIffCompleted(before, after, reward) ==
    /\ reward.finished \in {0, CompletionBonus}
    /\ (reward.finished = CompletionBonus) <=> (after.steaks = before.steaks - 1)

(* C23: a fighter's step reward includes the completion bonus +0.5 exactly in
   the steps in which its eating countdown reached zero and a steak was
   consumed; a step in which its eating was ended by a hit never carries the
   bonus. *)
C23_BonusOnlyOnCompletion ==
    StepTaken =>
        /\ BonusIffCompleted(last.before.fighter1, arena.fighter1, ret.reward1)
        /\ BonusIffCompleted(last.before.fighter2, arena.fighter2, ret.reward2)
        /\ (last.before.fighter1.eating /\ last.hit2) => ret.reward1.finished = 0
        /\ (last.before.fighter2.eating /\ last.hit1) => ret.reward2.finished = 0

(* C24: whenever a fighter that was eating at the start of a step has that
   eating interrupted by a hit during the step, its reward for that step
   includes the interruption penalty -0.3, whatever its own action and
   whatever the remaining countdown was. *)
C24_InterruptionPenalised ==
    StepTaken =>
        /\ (last.before.fighter1.eating /\ last.hit2)
               => ret.reward1.interrupted = InterruptionPenalty
        /\ (last.before.fighter2.eating /\ last.hit1)
               => ret.reward2.interrupted = InterruptionPenalty

\* food after a completed meal, before the regeneration check of the same call
MealFood(fighter) == Min(fighter.food + FOOD_PER_STEAK, MAX_FOOD)

\* the regeneration check of process_eating passes on the fighter's health and on this food
Regenerates(fighter, food) == food >= FOOD_HEAL_THRESHOLD /\ fighter.health < MAX_HEALTH

\* the meal of one fighter across the eating phase of a step: mid is its record
\* after the attack phase, end its record at the end of the step
MealRule(mid, eat, end) ==
    /\ end.eating => end.eating_ticks \in 1..(EAT_TICKS - 1)
    /\ (end.eating /\ end.eating_ticks = EAT_TICKS - 1)
          => (eat /\ ~mid.eating /\ mid.steaks > 0 /\ mid.food < MAX_FOOD)
    /\ (mid.eating /\ mid.eating_ticks > 1)
          => (end.eating /\ end.eating_ticks = mid.eating_ticks - 1 /\ end.steaks = mid.steaks)
    /\ (mid.eating /\ mid.eating_ticks <= 1)
          => (~end.eating /\ end.steaks = mid.steaks - 1 /\ end.steaks >= 0)
    /\ ~mid.eating => end.steaks = mid.steaks

\* a meal completes in the eating phase
Completes(mid) == mid.eating /\ mid.eating_ticks <= 1

(* C25 as stated: eating starts in a step only if the fighter has eat intent,
   is idle, has at least one steak and food below max; unless hit, the meal
   completes exactly on the 32nd step counting the step that started it, the
   fighter eating at the end of each of the first 31; on completion the steak
   count decreases by exactly 1, never below 0, and food becomes
   min(food + 8, 20). *)
C25_MealFoodExact ==
    StepTaken =>
        /\ MealRule(last.mid.fighter1, last.action1.eat, arena.fighter1)
        /\ MealRule(last.mid.fighter2, last.action2.eat, arena.fighter2)
        /\ Completes(last.mid.fighter1) => arena.fighter1.food = MealFood(last.mid.fighter1)
        /\ Completes(last.mid.fighter2) => arena.fighter2.food = MealFood(last.mid.fighter2)

\* the food at the end of a step that completed a meal: the meal's food, less the
\* regeneration cost 0.1 when the regeneration check passes on it
CompletedFood(mid, end) ==
    end.food = IF Regenerates(mid, MealFood(mid)) THEN MealFood(mid) - FoodUnit \div 10
               ELSE MealFood(mid)

(* C25, amended: as above, except that on completion food becomes
   min(food + 8, 20) less the 0.1 regeneration cost when, in the same call,
   that food is at or above the regeneration threshold and health is below
   max. *)
C25_MealRunsThirtyTwoSteps ==
    StepTaken =>
        /\ MealRule(last.mid.fighter1, last.action1.eat, arena.fighter1)
        /\ MealRule(last.mid.fighter2, last.action2.eat, arena.fighter2)
        /\ Completes(last.mid.fighter1) => CompletedFood(last.mid.fighter1, arena.fighter1)
        /\ Completes(last.mid.fighter2) => CompletedFood(last.mid.fighter2, arena.fighter2)

\* a meal that ran its 32 steps completes with regeneration in the same call
C25_Witness ==
    /\ StepTaken
    /\ Completes(last.mid.fighter2)
    /\ last.mid.fighter2.health < MAX_HEALTH
    /\ arena.fighter2.steaks = INITIAL_STEAKS - 1
    /\ arena.fighter2.food = MAX_FOOD - FoodUnit \div 10

\* both cooldowns of a fighter are in 0..10
CooldownsInRange(fighter) ==
    /\ fighter.attack_cooldown \in 0..ATTACK_COOLDOWN_TICKS
    /\ fighter.jump_cooldown \in 0..JUMP_COOLDOWN_TICKS

\* the jump of this step was accepted: the movement phase renewed the jump cooldown
JumpAccepted(before, moved) ==
    moved.jump_cooldown = JUMP_COOLDOWN_TICKS /\ moved.vy > before.vy

\* C26 for one fighter over one live step; hit says that its attack landed
CooldownStepRule(before, action, moved, end, hit) ==
    /\ end.attack_cooldown = IF hit THEN ATTACK_COOLDOWN_TICKS
                              ELSE SaturatingDec(before.attack_cooldown)
    /\ end.jump_cooldown = IF JumpAccepted(before, moved) THEN JUMP_COOLDOWN_TICKS
                            ELSE SaturatingDec(before.jump_cooldown)
    /\ end.jump_cooldown = JUMP_COOLDOWN_TICKS => JumpAccepted(before, moved)
    /\ JumpAccepted(before, moved)
          => /\ action.jump
             /\ before.on_ground
             /\ ~before.eating
             /\ SaturatingDec(before.jump_cooldown) = 0

(* C26: at every step boundary the attack cooldown and the jump cooldown of
   each fighter are in 0..10; in a non-terminal step each cooldown either
   decreases by exactly 1, staying 0 when already 0, or equals 10 when it was
   renewed in that step by a landed hit or an accepted jump; an accepted jump
   requires the fighter to be grounded, not eating and, when the movement
   phase runs, at jump cooldown 0. *)
C26_CooldownsCountDown ==
    /\ CooldownsInRange(arena.fighter1)
    /\ CooldownsInRange(arena.fighter2)
    /\ StepTaken =>
          /\ CooldownStepRule(last.before.fighter1, last.action1, last.moved.fighter1,
                              arena.fighter1, last.hit1)
          /\ CooldownStepRule(last.before.fighter2, last.action2, last.moved.fighter2,
                              arena.fighter2, last.hit2)

\* one step renews both cooldowns of fighter 1, the other fighter's only count down
C26_Witness ==
    /\ StepTaken
    /\ last.hit1
    /\ JumpAccepted(last.before.fighter1, last.moved.fighter1)
    /\ arena.fighter1.attack_cooldown = ATTACK_COOLDOWN_TICKS
    /\ arena.fighter1.jump_cooldown = JUMP_COOLDOWN_TICKS
    /\ \/ last.before.fighter2.attack_cooldown > 0
       \/ last.before.fighter2.jump_cooldown > 0
    /\ ~last.hit2
    /\ ~JumpAccepted(last.before.fighter2, last.moved.fighter2)

\* pitch within [-90, 90] and yaw within (-180, 180]
OrientationInRange(fighter) ==
    /\ fighter.pitch >= -90
    /\ fighter.pitch <= 90
    /\ fighter.yaw > -180
    /\ fighter.yaw <= 180

(* C27: after every step, for any yaw and pitch deltas in the actions, each
   fighter's pitch is within [-90, 90] and its yaw is within the half-open
   interval (-180, 180]: yaw is never exactly -180. *)
C27_OrientationInRange ==
    StepTaken => OrientationInRange(arena.fighter1) /\ OrientationInRange(arena.fighter2)

\* the vertical velocity of a fighter that does not jump, after the gravity step
Fall(fighter) == IF fighter.on_ground THEN fighter.vy ELSE fighter.vy - GRAVITY

\* the movement phase of an eating fighter: before is its record when the phase
\* runs (cooldowns already decremented), moved its record after the phase
EatingMoveRule(ar, before, action, moved) ==
    before.eating =>
        /\ moved.vx = MulDiv(before.vx, DRAG_PCT, 100)
        /\ moved.vz = MulDiv(before.vz, DRAG_PCT, 100)
        /\ moved.vy = IF before.y + Fall(before) <= ar.floor_y THEN 0 ELSE Fall(before)
        /\ moved.jump_cooldown = before.jump_cooldown
        /\ before.on_ground => moved.on_ground
        /\ moved.yaw = WrapYaw(before.yaw + action.delta_yaw)
        /\ moved.pitch = Clamp(before.pitch + action.delta_pitch, -90, 90)
        /\ moved.eating

\* velocity after the movement phase changes only by the opponent's knockback
OnlyKnockback(moved, end, hit) ==
    /\ ~hit => (end.vx = moved.vx /\ end.vy = moved.vy /\ end.vz = moved.vz)
    /\ hit => end.vy = moved.vy + KNOCKBACK_VERTICAL

(* C28: a fighter that is eating when the movement phase runs receives no
   acceleration from its directional intents and cannot start a jump in that
   step: its horizontal velocity changes only by drag, its vertical velocity
   only by gravity (ending at 0 when the fall reaches the floor), and after
   the movement phase only by the opponent's knockback, while its yaw and
   pitch still follow the action's deltas. *)
C28_EatingFighterDoesNotAccelerate ==
    StepTaken =>
        /\ EatingMoveRule(last.before, Cooldowns(last.before.fighter1), last.action1,
                          last.moved.fighter1)
        /\ EatingMoveRule(last.before, Cooldowns(last.before.fighter2), last.action2,
                          last.moved.fighter2)
        /\ last.before.fighter1.eating
              => OnlyKnockback(last.moved.fighter1, arena.fighter1, last.hit2)
        /\ last.before.fighter2.eating
              => OnlyKnockback(last.moved.fighter2, arena.fighter2, last.hit1)

\* an eating fighter still drifting from a knockback is told to charge and jump
C28_Witness ==
    /\ StepTaken
    /\ last.before.fighter2.eating
    /\ last.before.fighter2.vx # 0
    /\ last.action2.forward /\ last.action2.sprint /\ last.action2.jump
    /\ last.moved.fighter2.vx # 0

(* C29: a fighter that is eating at the start of a step lands no hit in that
   step, whether it is fighter 1 or fighter 2 and whether or not the opponent
   hits it in the same step. *)
C29_EatingFighterLandsNoHit ==
    StepTaken =>
        /\ last.before.fighter1.eating => ~last.hit1
        /\ last.before.fighter2.eating => ~last.hit2

(* C30: a fighter whose health is already zero or below never deals damage: in
   no step does fighter 2 land a hit after fighter 1's hit, resolved earlier in
   the same step, has reduced its health to zero or below. *)
C30_DeadFighterDealsNoDamage ==
    (StepTaken /\ last.hit1 /\ last.after1.fighter2.health <= 0)
        => /\ ~last.hit2
           /\ last.mid.fighter1.health = last.after1.fighter1.health
           /\ arena.fighter2.damage_dealt = last.before.fighter2.damage_dealt

\* fighter g is fighter f seen from the other side: positions and horizontal
\* velocities mirrored through the arena centre, yaw turned by half a circle,
\* everything else equal
MirrorOf(f, g) ==
    g = [f EXCEPT !.x = -f.x, !.z = -f.z, !.vx = -f.vx, !.vz = -f.vz,
                  !.yaw = WrapYaw(f.yaw + 180)]

\* the two sides of the match are mirror images and the arena is centred
MirrorSymmetric(ar) ==
    /\ MirrorOf(ar.fighter1, ar.fighter2)
    /\ ar.min_x = -ar.max_x
    /\ ar.min_z = -ar.max_z

\* a live step from a mirror-symmetric state with the same action on both sides
SymmetricStep == StepTaken /\ MirrorSymmetric(last.before) /\ last.action1 = last.action2

(* C31: step is symmetric in the two sides: from a mirror-symmetric state with
   identical actions for both fighters the step returns equal rewards for both
   sides and leaves the fighters mirror-symmetric, with equal health, damage
   taken, cooldowns and flags; in particular both take the same damage when
   both land a hit. *)
C31_StepIsSymmetric ==
    SymmetricStep =>
        /\ RewardTotal(ret.reward1) = RewardTotal(ret.reward2)
        /\ arena.fighter1.health = arena.fighter2.health
        /\ arena.fighter1.damage_taken = arena.fighter2.damage_taken
        /\ arena.fighter1.attack_cooldown = arena.fighter2.attack_cooldown
        /\ arena.fighter1.jump_cooldown = arena.fighter2.jump_cooldown
        /\ arena.fighter1.eating = arena.fighter2.eating
        /\ arena.fighter1.sprinting = arena.fighter2.sprinting
        /\ arena.fighter1.on_ground = arena.fighter2.on_ground
        /\ (last.hit1 /\ last.hit2)
              => (last.before.fighter1.health - arena.fighter1.health
                  = last.before.fighter2.health - arena.fighter2.health)

\* the lowest food passive regeneration can leave: the threshold 18 less one cost 0.1
FoodFloor == FOOD_HEAL_THRESHOLD - FoodUnit \div 10

FoodInRange(fighter) == fighter.food >= FoodFloor /\ fighter.food <= MAX_FOOD

\* over one live step food is lowered only by one regeneration cost, paid from a
\* food at or above the threshold, and sprinting follows the intents alone
FoodStepRule(before, action, moved, mid, end) ==
    /\ end.food < before.food
          => /\ end.food = before.food - FoodUnit \div 10
             /\ before.food >= FOOD_HEAL_THRESHOLD
             /\ mid.health < MAX_HEALTH
    /\ moved.sprinting <=> (action.sprint /\ action.forward)

(* C32: in every state reachable from reset by any sequence of steps each
   fighter's food is at least 17.9, the regeneration threshold 18 less one
   regeneration cost 0.1, and at most 20: food is lowered only by passive
   regeneration, which runs only while food is at least 18, so the sprint food
   threshold 6 never blocks sprinting. *)
C32_FoodStaysHigh ==
    /\ FoodInRange(arena.fighter1)
    /\ FoodInRange(arena.fighter2)
    /\ StepTaken =>
          /\ FoodStepRule(last.before.fighter1, last.action1, last.moved.fighter1,
                          last.mid.fighter1, arena.fighter1)
          /\ FoodStepRule(last.before.fighter2, last.action2, last.moved.fighter2,
                          last.mid.fighter2, arena.fighter2)

\* a wounded fighter whose food has fallen to the floor sprints, and its food stays
C32_Witness ==
    /\ StepTaken
    /\ last.before.fighter2.food = FoodFloor
    /\ last.before.fighter2.health < MAX_HEALTH
    /\ last.action2.sprint
    /\ last.moved.fighter2.sprinting
    /\ arena.fighter2.food = FoodFloor

(* C33: for the live-client wrapper, under every interleaving of the
   connection thread's Init handler (store the client handle, then set
   connected) with a caller's disconnect() (clear the handle under the lock,
   then clear connected): once disconnect() has returned, connected stays false
   and no client handle is stored, and at no time is connected true while the
   stored handle is absent. *)
C33_DisconnectIsFinal ==
    /\ bot.returned => (~bot.connected /\ bot.inner = NoClient)
    /\ bot.connected => bot.inner # NoClient

====
